---- MODULE Spec2Model ----
(***************************************************************************)
(* Skip+ overlay maintenance (vaud/skip.py): per-node neighbourhood N,     *)
(* per-level range cache, linearise / timeout, and the node factory.       *)
(*                                                                         *)
(* A random bit string (rs) of RS_BIT_LENGTH bits is held as the natural   *)
(* number it denotes most-significant bit first, so the lexicographic      *)
(* order on bit strings is < on numbers and the first i bits of rs are     *)
(* rs \div 2^(RS_BIT_LENGTH - i).                                          *)
(***************************************************************************)
EXTENDS Integers, Sequences, FiniteSets, TLC

\* ---------------------------------------------------------------- bounds
MaxNodes == 3
RsValues == 3
MaxPending == 0
MaxFailures == 1
ConvNodes == 4
ConvRsValues == 4
BridgeNodes == 5
BridgeRsValues == 5
EntryNodes == 2
EntryRsValues == 3
LcpRsValues == 4

\* ------------------------------------------------------ program constants
RS_BYTE_LENGTH == 2
RS_BIT_LENGTH == RS_BYTE_LENGTH * 8
StartPort == 33000
ThisHost == "thisHost"
EntryNodeHost == "entryNodeHost"
None == -1

Pow2(n) == 2 ^ n

Levels == 0 .. (RS_BIT_LENGTH - 2)
MaxPorts ==
    LET limits == {MaxNodes, ConvNodes, BridgeNodes, EntryNodes}
    IN CHOOSE n \in limits : \A k \in limits : k <= n
Ports == StartPort .. (StartPort + MaxPorts - 1)
\* The entry node listens on another host, on a port of its own.
EntryNodePort == StartPort - 1

\* randomBitArray(RS_BYTE_LENGTH): the model draws from `values` bit strings
\* spread evenly over the 2^16 there are.
randomBitArray(values) == { k * (Pow2(RS_BIT_LENGTH) \div values) : k \in 0 .. (values - 1) }

\* ------------------------------------------------------------- references
SkipNodeReference(host, port, bits) == [host |-> host, port |-> port, rs |-> bits]

lowest == [host |-> "lowest", port |-> None, rs |-> None]
highest == [host |-> "highest", port |-> None, rs |-> None]

\* Order on references: by rs, the two pseudo references at the extremes.
Key(x) == IF x = lowest THEN -1 ELSE IF x = highest THEN Pow2(RS_BIT_LENGTH) ELSE x.rs
Lt(a, b) == Key(a) < Key(b)
Le(a, b) == Key(a) <= Key(b)
MaxRef(S) == CHOOSE x \in S : \A y \in S : Le(y, x)
MinRef(S) == CHOOSE x \in S : \A y \in S : Le(x, y)

\* Wire copy of a reference.
NodeReference_getStateToCopy(r) == <<r.host, r.port>>
NodeReference_setCopyableState(r, state) == [r EXCEPT !.host = state[1], !.port = state[2]]
getStateToCopy(r) == <<NodeReference_getStateToCopy(r), r.rs>>
\* Variant: the rs of the wire state is not taken over.
setCopyableStateNoRs(r, state) == NodeReference_setCopyableState(r, state[1])
setCopyableState(r, state) == [NodeReference_setCopyableState(r, state[1]) EXCEPT !.rs = state[2]]
FreshReference == SkipNodeReference("None", None, None)
Unjelly(state) == setCopyableState(FreshReference, state)

\* ---------------------------------------------------- skip helper functions
prefix(i, v) == v.rs \div Pow2(RS_BIT_LENGTH - i)

pred(v, W) == MaxRef({w \in W : Lt(w, v)} \cup {lowest})
succ(v, W) == MinRef({w \in W : Lt(v, w)} \cup {highest})

levelNodes(i, v, x, N) == {w \in N : prefix(i + 1, w) = 2 * prefix(i, v) + x}
levelPred(i, v, x, N) == pred(v, levelNodes(i, v, x, N))
levelSucc(i, v, x, N) == succ(v, levelNodes(i, v, x, N))

low(i, v, N) == MinRef({levelPred(i, v, 0, N), levelPred(i, v, 1, N)})
\* Variant: the level predecessors are taken, as the docstring of high has it.
highOfPreds(i, v, N) == MaxRef({levelPred(i, v, 0, N), levelPred(i, v, 1, N)})
high(i, v, N) == MaxRef({levelSucc(i, v, 0, N), levelSucc(i, v, 1, N)})

\* Variant: the two bounds are members of the range.
skipRangeWithBounds(i, v, N) ==
    LET vPrefix == prefix(i, v)
        l == low(i, v, N)
        h == high(i, v, N)
    IN {w \in N : prefix(i, w) = vPrefix /\ Le(l, w) /\ Le(w, h)} \cup {l, h}

\* Variant: the range is not restricted to the nodes sharing v's prefix.
skipRangeNoPrefix(i, v, N) ==
    LET l == low(i, v, N)
        h == high(i, v, N)
    IN {w \in N : Le(l, w) /\ Le(w, h)}

skipRange(i, v, N) ==
    LET vPrefix == prefix(i, v)
        l == low(i, v, N)
        h == high(i, v, N)
    IN {w \in N : prefix(i, w) = vPrefix /\ Le(l, w) /\ Le(w, h)}

Bit(b, i) == (b \div Pow2(RS_BIT_LENGTH - 1 - i)) % 2

RECURSIVE cplFrom(_, _, _)
cplFrom(v, w, i) == IF i < RS_BIT_LENGTH /\ Bit(v, i) = Bit(w, i) THEN cplFrom(v, w, i + 1) ELSE i
commonPrefixLength(v, w) == cplFrom(v, w, 0)

\* Variant: min is taken in place of max.
shortestCommonPrefixNode(w, W) ==
    {x \in W : \A y \in W : commonPrefixLength(x.rs, w.rs) <= commonPrefixLength(y.rs, w.rs)}

\* max(W, key=...) returns the first maximal element met while iterating the
\* set W; the iteration order of a set is not fixed, so every maximiser is a
\* possible result.
longestCommonPrefixNode(w, W) ==
    {x \in W : \A y \in W : commonPrefixLength(y.rs, w.rs) <= commonPrefixLength(x.rs, w.rs)}

\* ------------------------------------------------------------------ state
VARIABLES nodes, N, ranges, nodesInRanges, msgs, failed,
          entryNode, entryNodeReference, deferredRs, entryCalls,
          lcpCall, lcpResult
vars == <<nodes, N, ranges, nodesInRanges, msgs, failed,
          entryNode, entryNodeReference, deferredRs, entryCalls,
          lcpCall, lcpResult>>
lcpVars == <<lcpCall, lcpResult>>
entryVars == <<entryNode, entryNodeReference, deferredRs, entryCalls>>

\* nodes         : factory.nodes, the references of the nodes in creation order
\* N[p]          : SkipNode.N of the node listening on port p
\* ranges[p][i]  : SkipNode._ranges[i]
\* nodesInRanges : SkipNode._nodesInRanges
\* msgs          : linearise calls issued through a reference, not yet dispatched
\* failed        : the outbound calls that failed: the caller's port, the
\*                 reference called, and the caller's N at that moment
\* entryNode     : the entry node the factory is configured with (host, port)
\*                 and the rs that node answers; empty when none is configured
\* entryNodeReference : SkipNodeFactory.entryNodeReference, empty while None
\* deferredRs    : the state of the rs() request of the factory's constructor
\* entryCalls    : how often the factory has invoked linearise(entryRef) on
\*                 its first node
\* lcpCall       : the arguments (w, W) of a call of longestCommonPrefixNode
\* lcpResult     : what that call returned, empty until it has returned

Created == {nodes[k] : k \in 1 .. Len(nodes)}
CreatedPorts == {nodes[k].port : k \in 1 .. Len(nodes)}
reference(p) == nodes[p - StartPort + 1]

Call(target, u) == [to |-> target, arg |-> getStateToCopy(u)]

\* ------------------------------------------------------------ updateRanges
\* nodesInRanges.union(currentLevelRange) builds a new set and leaves
\* nodesInRanges as it was: the result of the call is dropped.
unionCall(acc, currentLevelRange) == acc

RECURSIVE unionLevels(_, _, _)
unionLevels(acc, rg, i) ==
    IF i > RS_BIT_LENGTH - 2 THEN acc ELSE unionLevels(unionCall(acc, rg[i]), rg, i + 1)

updateRanges(self, n) ==
    LET rg == [i \in Levels |-> skipRange(i, self, n)]
    IN [ranges |-> rg, nodesInRanges |-> unionLevels({}, rg, 0)]

\* --------------------------------------------------------------- linearise
delegations(undesirableNodes, W) ==
    {d \in [undesirableNodes -> W] : \A w \in undesirableNodes : d[w] \in longestCommonPrefixNode(w, W)}

\* Variant: u is not compared with the node's own reference.
lineariseNoSelfCheck(self, n, rg, nir, u) ==
    IF u \notin n
    THEN LET n1 == n \cup {u}
             upd == updateRanges(self, n1)
         IN {[N |-> n1, ranges |-> upd.ranges, nodesInRanges |-> upd.nodesInRanges, calls |-> {}]}
    ELSE {[N |-> n, ranges |-> rg, nodesInRanges |-> nir, calls |-> {}]}

\* Variant: N is replaced by nodesInRanges also when nodesInRanges is empty
\* (the delegation loop then finds no destination and issues no call).
lineariseAlwaysPrune(self, n, rg, nir, u) ==
    IF u # self /\ u \notin n
    THEN LET n1 == n \cup {u}
             upd == updateRanges(self, n1)
             undesirableNodes == n1 \ upd.nodesInRanges
             n2 == upd.nodesInRanges
         IN IF n2 = {}
            THEN {[N |-> n2, ranges |-> upd.ranges, nodesInRanges |-> upd.nodesInRanges, calls |-> {}]}
            ELSE {[N |-> n2, ranges |-> upd.ranges, nodesInRanges |-> upd.nodesInRanges,
                   calls |-> {Call(d[w], w) : w \in undesirableNodes}] :
                     d \in delegations(undesirableNodes, n2)}
    ELSE {[N |-> n, ranges |-> rg, nodesInRanges |-> nir, calls |-> {}]}

\* Variant: a reference that is already in N is dropped from it.
lineariseToggle(self, n, rg, nir, u) ==
    IF u # self /\ u \notin n
    THEN LET n1 == n \cup {u}
             upd == updateRanges(self, n1)
         IN {[N |-> n1, ranges |-> upd.ranges, nodesInRanges |-> upd.nodesInRanges, calls |-> {}]}
    ELSE LET n1 == n \ {u}
             upd == updateRanges(self, n1)
         IN {[N |-> n1, ranges |-> upd.ranges, nodesInRanges |-> upd.nodesInRanges, calls |-> {}]}

\* Variant: N is rebound to the new reference alone instead of being added to.
lineariseReplace(self, n, rg, nir, u) ==
    IF u # self /\ u \notin n
    THEN LET n1 == {u}
             upd == updateRanges(self, n1)
         IN {[N |-> n1, ranges |-> upd.ranges, nodesInRanges |-> upd.nodesInRanges, calls |-> {}]}
    ELSE {[N |-> n, ranges |-> rg, nodesInRanges |-> nir, calls |-> {}]}

\* The states linearise(u) can leave the node `self` in, with the calls issued.
linearise(self, n, rg, nir, u) ==
    IF u # self /\ u \notin n
    THEN LET n1 == n \cup {u}
             upd == updateRanges(self, n1)
         IN IF Cardinality(upd.nodesInRanges) = 0
            THEN {[N |-> n1, ranges |-> upd.ranges, nodesInRanges |-> upd.nodesInRanges, calls |-> {}]}
            ELSE LET undesirableNodes == n1 \ upd.nodesInRanges
                     n2 == upd.nodesInRanges
                 IN {[N |-> n2, ranges |-> upd.ranges, nodesInRanges |-> upd.nodesInRanges,
                      calls |-> {Call(d[w], w) : w \in undesirableNodes}] :
                        d \in delegations(undesirableNodes, n2)}
    ELSE {[N |-> n, ranges |-> rg, nodesInRanges |-> nir, calls |-> {}]}

\* ----------------------------------------------------------------- timeout
RECURSIVE sortAsc(_)
sortAsc(S) == IF S = {} THEN <<>> ELSE LET m == MinRef(S) IN <<m>> \o sortAsc(S \ {m})
RECURSIVE sortDesc(_)
sortDesc(S) == IF S = {} THEN <<>> ELSE LET m == MaxRef(S) IN <<m>> \o sortDesc(S \ {m})

leftRange(self, R) == sortAsc({x \in R : Lt(x, self)})
\* Variant: the right side is sorted ascending like the left side.
rightRangeAsc(self, R) == sortAsc({x \in R : Lt(self, x)})
rightRange(self, R) == sortDesc({x \in R : Lt(self, x)})

\* Variant: the node closest to self is not introduced to self.
linearisingNoSelf(self, r) == {Call(r[k], r[k + 1]) : k \in 1 .. (Len(r) - 1)}

\* Part a on one side r: r[k].linearise(r[k+1]), then r[-1].linearise(self).
linearising(self, r) ==
    {Call(r[k], r[k + 1]) : k \in 1 .. (Len(r) - 1)}
        \cup (IF Len(r) > 0 THEN {Call(r[Len(r)], self)} ELSE {})

\* The inner loop `for i in range(len(r)-1)` of part a rebinds the level
\* variable i of the enclosing loop; part b reads i afterwards.
levelAfterPartA(i, left, right) ==
    IF Len(right) > 1 THEN Len(right) - 2
    ELSE IF Len(left) > 1 THEN Len(left) - 2
    ELSE i

\* Variant: the nodes of range2 itself are offered its closest node.
bridgingOwnSide(i, range1, range2, n) ==
    IF Len(range2) > 0
    THEN LET closestRange2Node == range2[Len(range2)]
         IN {Call(range2[k], closestRange2Node) :
                k \in {j \in 1 .. Len(range2) : closestRange2Node \in skipRange(i, range2[j], n)}}
    ELSE {}

bridging(i, range1, range2, n) ==
    IF Len(range2) > 0
    THEN LET closestRange2Node == range2[Len(range2)]
         IN {Call(range1[k], closestRange2Node) :
                k \in {j \in 1 .. Len(range1) : closestRange2Node \in skipRange(i, range1[j], n)}}
    ELSE {}

timeoutLevel(self, i, rg, n) ==
    LET left == leftRange(self, rg[i])
        right == rightRange(self, rg[i])
        ib == levelAfterPartA(i, left, right)
    IN linearising(self, left) \cup linearising(self, right)
         \cup bridging(ib, left, right, n) \cup bridging(ib, right, left, n)

timeout(self, rg, n) == UNION {timeoutLevel(self, i, rg, n) : i \in Levels}

\* ------------------------------------------------------------------ actions
Init ==
    /\ nodes = <<>>
    /\ N = [p \in Ports |-> {}]
    /\ ranges = [p \in Ports |-> [i \in Levels |-> {}]]
    /\ nodesInRanges = [p \in Ports |-> {}]
    /\ msgs = {}
    /\ failed = {}
    /\ entryNode = {}
    /\ entryNodeReference = {}
    /\ deferredRs = "none"
    /\ entryCalls = 0
    /\ lcpCall = {}
    /\ lcpResult = {}

\* self.linearise(u) on the node listening on port p
Linearise(p, u, pending) ==
    \E res \in linearise(reference(p), N[p], ranges[p], nodesInRanges[p], u) :
        /\ N' = [N EXCEPT ![p] = res.N]
        /\ ranges' = [ranges EXCEPT ![p] = res.ranges]
        /\ nodesInRanges' = [nodesInRanges EXCEPT ![p] = res.nodesInRanges]
        /\ msgs' = pending \cup res.calls

\* Variant: a new node is not introduced to the node created before it.
NewNodeNoIntroduction(limit, values) ==
    /\ Len(nodes) < limit
    /\ \E bits \in randomBitArray(values) \ {r.rs : r \in Created \cup entryNode} :
         nodes' = Append(nodes, SkipNodeReference(ThisHost, StartPort + Len(nodes), bits))
    /\ UNCHANGED <<N, ranges, nodesInRanges, msgs, failed, entryVars, lcpVars>>

\* Variant: the first node is never given the entry node's reference.
initNodeNoEntry(node, isFirstNode) ==
    IF isFirstNode
    THEN {}
    ELSE {nodes[Len(nodes)]}

\* SkipNodeFactory._initNode: the references the new node is linearised with.
initNode(node, isFirstNode) ==
    IF isFirstNode
    THEN entryNodeReference
    ELSE {nodes[Len(nodes)]}

\* SkipNodeFactory.newNode(). Two nodes never draw the same bit string
\* (references are totally ordered by rs).
NewNode(limit, values) ==
    /\ Len(nodes) < limit
    /\ \E bits \in randomBitArray(values) \ {r.rs : r \in Created \cup entryNode} :
         LET port == StartPort + Len(nodes)
             node == SkipNodeReference(ThisHost, port, bits)
             isFirstNode == Len(nodes) = 0
             given == initNode(node, isFirstNode)
         IN /\ nodes' = Append(nodes, node)
            /\ IF given = {}
               THEN UNCHANGED <<N, ranges, nodesInRanges, msgs>>
               ELSE \E u \in given :
                    \E res \in linearise(node, {}, [i \in Levels |-> {}], {}, u) :
                      /\ N' = [N EXCEPT ![port] = res.N]
                      /\ ranges' = [ranges EXCEPT ![port] = res.ranges]
                      /\ nodesInRanges' = [nodesInRanges EXCEPT ![port] = res.nodesInRanges]
                      /\ msgs' = msgs \cup res.calls
            /\ entryCalls' = IF isFirstNode /\ given # {} THEN entryCalls + 1 ELSE entryCalls
    /\ UNCHANGED <<failed, entryNode, entryNodeReference, deferredRs, lcpVars>>

\* Variant: the partition takes the members out of the cached ranges.
TimeoutConsuming(p) ==
    /\ p \in CreatedPorts
    /\ Cardinality(msgs) <= MaxPending
    /\ msgs' = msgs \cup timeout(reference(p), ranges[p], N[p])
    /\ ranges' = [ranges EXCEPT ![p] = [i \in Levels |-> {}]]
    /\ UNCHANGED <<nodes, N, nodesInRanges, failed, entryVars, lcpVars>>

\* The periodic timeout of the node on port p; every call it issues is sent.
Timeout(p) ==
    /\ p \in CreatedPorts
    /\ Cardinality(msgs) <= MaxPending
    /\ msgs' = msgs \cup timeout(reference(p), ranges[p], N[p])
    /\ UNCHANGED <<nodes, N, ranges, nodesInRanges, failed, entryVars, lcpVars>>

\* A linearise call reaches its target node and is dispatched there.
Deliver(m) ==
    /\ m \in msgs
    /\ m.to.port \in CreatedPorts
    /\ Linearise(m.to.port, Unjelly(m.arg), msgs \ {m})
    /\ UNCHANGED <<nodes, failed, entryVars, lcpVars>>

\* The periodic timeout of the node on port p where the call c fails: the
\* deferred it returned errs back and the call never reaches its target.
TimeoutFail(p) ==
    /\ p \in CreatedPorts
    /\ Cardinality(msgs) <= MaxPending
    /\ Cardinality(failed) < MaxFailures
    /\ LET calls == timeout(reference(p), ranges[p], N[p])
       IN \E c \in calls :
            /\ msgs' = msgs \cup (calls \ {c})
            /\ failed' = failed \cup {[caller |-> p, to |-> c.to, n |-> N[p]]}
    /\ UNCHANGED <<nodes, N, ranges, nodesInRanges, entryVars, lcpVars>>

\* A call linearise(u) issued by a peer outside the factory is dispatched on
\* the node on port p.
RemoteCall(p, u) ==
    /\ p \in CreatedPorts
    /\ u \in Created
    /\ Linearise(p, Unjelly(getStateToCopy(u)), msgs)
    /\ UNCHANGED <<nodes, failed, entryVars, lcpVars>>

\* SkipNodeFactory.__init__ with entryNodeHost and entryNodePort given: the
\* rs() request to the entry node is under way.
InitEntry(values) ==
    /\ nodes = <<>>
    /\ N = [p \in Ports |-> {}]
    /\ ranges = [p \in Ports |-> [i \in Levels |-> {}]]
    /\ nodesInRanges = [p \in Ports |-> {}]
    /\ msgs = {}
    /\ failed = {}
    /\ \E bits \in randomBitArray(values) :
         entryNode = {SkipNodeReference(EntryNodeHost, EntryNodePort, bits)}
    /\ entryNodeReference = {}
    /\ deferredRs = "pending"
    /\ entryCalls = 0
    /\ lcpCall = {}
    /\ lcpResult = {}

\* Node.introduce(reference) on a node of the factory.
introduce(self, n, rg, nir, u) == linearise(self, n, rg, nir, u)

\* SkipNodeFactory._gotEntryNodeRs: the entry node's rs has arrived.
GotEntryNodeRs ==
    /\ deferredRs = "pending"
    /\ deferredRs' = "fired"
    /\ \E e \in entryNode :
         LET ref == SkipNodeReference(e.host, e.port, e.rs)
         IN /\ entryNodeReference' = {ref}
            /\ IF Len(nodes) > 0
               THEN LET p == nodes[1].port
                    IN \E res \in introduce(nodes[1], N[p], ranges[p], nodesInRanges[p], ref) :
                         /\ N' = [N EXCEPT ![p] = res.N]
                         /\ ranges' = [ranges EXCEPT ![p] = res.ranges]
                         /\ nodesInRanges' = [nodesInRanges EXCEPT ![p] = res.nodesInRanges]
                         /\ msgs' = msgs \cup res.calls
                         /\ entryCalls' = entryCalls + 1
               ELSE UNCHANGED <<N, ranges, nodesInRanges, msgs, entryCalls>>
    /\ UNCHANGED <<nodes, failed, entryNode, lcpVars>>

\* SkipNodeFactory._failedGettingEntryNodeRs: a warning is logged.
FailedGettingEntryNodeRs ==
    /\ deferredRs = "pending"
    /\ deferredRs' = "failed"
    /\ UNCHANGED <<nodes, N, ranges, nodesInRanges, msgs, failed,
                   entryNode, entryNodeReference, entryCalls, lcpVars>>

\* A linearise call addressed to the entry node leaves for the entry node's
\* host; what the entry node does with it is outside the factory.
DeliverRemote(m) ==
    /\ m \in msgs
    /\ m.to \in entryNode
    /\ msgs' = msgs \ {m}
    /\ UNCHANGED <<nodes, N, ranges, nodesInRanges, failed, entryVars, lcpVars>>

Next ==
    \/ NewNode(MaxNodes, RsValues)
    \/ \E p \in Ports : Timeout(p)
    \/ \E m \in msgs : Deliver(m)

Spec == Init /\ [][Next]_vars

\* The peers outside the factory hand a node its own reference.
NextOpen ==
    \/ NewNode(MaxNodes, RsValues)
    \/ \E p \in Ports : Timeout(p)
    \/ \E m \in msgs : Deliver(m)
    \/ \E r \in Created : RemoteCall(r.port, r)

SpecOpen == Init /\ [][NextOpen]_vars

NextFail ==
    \/ NewNode(MaxNodes, RsValues)
    \/ \E p \in Ports : Timeout(p)
    \/ \E m \in msgs : Deliver(m)
    \/ \E p \in Ports : TimeoutFail(p)

SpecFail == Init /\ [][NextFail]_vars

\* The factory of the convergence scenario.
NextConv ==
    \/ NewNode(ConvNodes, ConvRsValues)
    \/ \E p \in Ports : Timeout(p)
    \/ \E m \in msgs : Deliver(m)

SpecConv == Init /\ [][NextConv]_vars

\* The factory of the bridging scenario: each node draws a bit string above
\* the ones drawn before it.
NextBridge ==
    \/ NewNode(BridgeNodes, BridgeRsValues) /\ \A r \in Created : Lt(r, nodes'[Len(nodes')])
    \/ \E p \in Ports : Timeout(p)
    \/ \E m \in msgs : Deliver(m)

SpecBridge == Init /\ [][NextBridge]_vars

\* The factory configured with an entry node.
NextEntry ==
    \/ NewNode(EntryNodes, EntryRsValues)
    \/ \E p \in Ports : Timeout(p)
    \/ \E m \in msgs : Deliver(m)
    \/ \E m \in msgs : DeliverRemote(m)
    \/ GotEntryNodeRs
    \/ FailedGettingEntryNodeRs

SpecEntry == InitEntry(EntryRsValues) /\ [][NextEntry]_vars

\* longestCommonPrefixNode on its own: the references a call can be given.
References(values) ==
    LET bits == sortAsc({SkipNodeReference(ThisHost, None, b) : b \in randomBitArray(values)})
    IN {SkipNodeReference(ThisHost, StartPort + k - 1, bits[k].rs) : k \in 1 .. Len(bits)}

InitLcp(values) ==
    /\ nodes = <<>>
    /\ N = [p \in Ports |-> {}]
    /\ ranges = [p \in Ports |-> [i \in Levels |-> {}]]
    /\ nodesInRanges = [p \in Ports |-> {}]
    /\ msgs = {}
    /\ failed = {}
    /\ entryNode = {}
    /\ entryNodeReference = {}
    /\ deferredRs = "none"
    /\ entryCalls = 0
    /\ lcpCall \in [w : References(values), W : SUBSET References(values) \ {{}}]
    /\ lcpResult = {}

\* The call returns.
LongestCommonPrefixNode ==
    /\ lcpResult = {}
    /\ \E x \in longestCommonPrefixNode(lcpCall.w, lcpCall.W) : lcpResult' = {x}
    /\ UNCHANGED <<nodes, N, ranges, nodesInRanges, msgs, failed, entryVars, lcpCall>>

NextLcp == LongestCommonPrefixNode

SpecLcp == InitLcp(LcpRsValues) /\ [][NextLcp]_vars

TypeOK ==
    /\ \A p \in Ports : N[p] \subseteq Created \cup entryNodeReference
    /\ msgs \subseteq [to : Created \cup entryNodeReference,
                      arg : {getStateToCopy(r) : r \in Created \cup entryNodeReference}]
    /\ deferredRs \in {"none", "pending", "fired", "failed"}
    /\ entryCalls \in Nat

\* ================================================================== claims
Self(p) == reference(p)
Arg(m) == Unjelly(m.arg)

\* C1: in every reachable state no node has its own reference in its N.
C1_SelfNotInN == \A p \in CreatedPorts : Self(p) \notin N[p]

\* A node that has taken two introductions and is itself known to another node.
C1_Witness ==
    \E p \in CreatedPorts :
        /\ Cardinality(N[p]) >= 2
        /\ Self(p) \notin N[p]
        /\ \E q \in CreatedPorts : Self(p) \in N[q]

\* The outcome of a linearise(u) call on the node on port p that had the
\* neighbourhood n when the call began.
Outcome(p, n, u) ==
    (nodesInRanges'[p] = {} /\ N'[p] = n \cup {u})
        # (nodesInRanges'[p] # {} /\ N'[p] = nodesInRanges'[p])

C3_NodesInRangesIsUnion ==
    \A p \in CreatedPorts : nodesInRanges[p] = UNION {ranges[p][i] : i \in Levels}

\* C4: every member of a cached range is in the current N, shares its first
\* i bits with the node, and lies between low and high taken on the current N.
C4_RangesFresh ==
    [](\A p \in CreatedPorts : \A i \in Levels :
          ranges[p][i] # {} =>
              LET l == low(i, Self(p), N[p])
                  h == high(i, Self(p), N[p])
              IN \A w \in ranges[p][i] :
                   /\ w \in N[p]
                   /\ prefix(i, w) = prefix(i, Self(p))
                   /\ Le(l, w)
                   /\ Le(w, h))

\* A node whose level-1 range holds a neighbour and leaves another one out.
C4_Witness ==
    \E p \in CreatedPorts :
        /\ ranges[p][1] # {}
        /\ \E w \in N[p] : prefix(1, w) # prefix(1, Self(p))

\* C5: a second linearise(u) right after a first leaves N as the first left
\* it, and a linearise(u) with u already taken leaves N as it is.
C5_Idempotent ==
    [][\A m \in msgs \ msgs' : Deliver(m) =>
         LET p == m.to.port
         IN /\ \A res \in linearise(Self(p), N'[p], ranges'[p], nodesInRanges'[p], Arg(m)) :
                 res.N = N'[p]
            /\ (Arg(m) \in N[p] => N'[p] = N[p])]_vars

\* A node holding several neighbours, each of which can be introduced again.
C5_Witness == \E p \in CreatedPorts : Cardinality(N[p]) >= 2 /\ msgs # {}

\* The legal Skip+ topology on the nodes created.
Legal ==
    \A v \in Created : \A w \in Created \ {v} :
        w \in N[v.port] <=> \E i \in Levels : w \in skipRange(i, v, Created)

\* No call is pending and no timeout would issue a call that changes its target.
Quiescent ==
    /\ Len(nodes) = ConvNodes
    /\ msgs = {}
    /\ \A v \in Created : \A c \in timeout(v, ranges[v.port], N[v.port]) :
          Arg(c) \in N[c.to.port] \cup {c.to}

\* C6: the system reaches the legal topology and stays in it; so a state in
\* which nothing can change any more has the legal topology.
C6_QuiescentIsLegal == Quiescent => Legal

\* The undirected graph of the N edges and of the calls not yet dispatched.
Linked(v, w) ==
    \/ w \in N[v.port]
    \/ v \in N[w.port]
    \/ \E m \in msgs : (m.to = v /\ Arg(m) = w) \/ (m.to = w /\ Arg(m) = v)

RECURSIVE ReachFrom(_)
ReachFrom(S) ==
    LET T == S \cup {w \in Created : \E v \in S : Linked(v, w)}
    IN IF T = S THEN S ELSE ReachFrom(T)

Connected == Created = {} \/ ReachFrom({nodes[1]}) = Created

\* C7: the graph of N edges and pending calls stays connected.
C7_Connected == Connected

\* All nodes are created, a call is pending and a node has several neighbours.
C7_Witness ==
    /\ Len(nodes) = MaxNodes
    /\ msgs # {}
    /\ \E p \in CreatedPorts : Cardinality(N[p]) >= 2
    /\ Connected

\* C8: a reference rebuilt from its wire state has the host, port and rs of
\* the original, equals it, and is the same element of N.
C8_RoundTrip ==
    /\ \A r \in Created :
         LET c == Unjelly(getStateToCopy(r))
         IN /\ c.host = r.host /\ c.port = r.port /\ c.rs = r.rs
            /\ c = r
            /\ \A p \in CreatedPorts : c \in N[p] <=> r \in N[p]
    /\ \A m \in msgs : Arg(m) \in Created

\* A reference that crossed the wire is held in the N of the node it was sent to.
C8_Witness ==
    /\ msgs # {}
    /\ \E p \in CreatedPorts : \E r \in N[p] :
          r # nodes[1] /\ r.port < p /\ Unjelly(getStateToCopy(r)) \in N[p]

\* C9 as claimed: once the caller's next successful linearise has changed its
\* N, the reference whose call failed is no longer in the caller's N.
C9_FailedEdgeRemoved ==
    \A f \in failed : N[f.caller] # f.n => f.to \notin N[f.caller]

\* C9 amended: the reference whose call failed stays in the caller's N.
C9_FailedEdgeKept ==
    \A f \in failed : f.to \in N[f.caller] /\ f.n \subseteq N[f.caller]

\* A call has failed and the caller has since taken a new neighbour.
C9_Witness ==
    \E f \in failed : N[f.caller] # f.n /\ f.to \in N[f.caller]

\* C10: a is the second node, introduced to the first node b, with a.rs < b.rs.
\* b is in a.N; a's timeout issues b.linearise(a); its dispatch puts a in b.N.
C10_TwoNodes ==
    /\ [](Len(nodes) >= 2 /\ Lt(nodes[2], nodes[1]) => nodes[1] \in N[nodes[2].port])
    /\ [](Len(nodes) = 2 /\ Lt(nodes[2], nodes[1])
            => Call(nodes[1], nodes[2]) \in timeout(nodes[2], ranges[nodes[2].port], N[nodes[2].port]))
    /\ [][Len(nodes) >= 2 /\ Lt(nodes[2], nodes[1]) /\ Deliver(Call(nodes[1], nodes[2]))
            => nodes[2] \in N'[nodes[1].port]]_vars

\* Two nodes, a below b, each holding the other after timeout and delivery.
C10_Witness ==
    /\ Len(nodes) = 2
    /\ Lt(nodes[2], nodes[1])
    /\ N[nodes[2].port] = {nodes[1]}
    /\ N[nodes[1].port] = {nodes[2]}
    /\ msgs = {}

\* C11: linearise(u) with u the node's own reference or u already in N leaves
\* N, ranges and nodesInRanges as they are and issues no call.
C11_NoOp ==
    [][/\ \A m \in msgs \ msgs' :
             ((Arg(m) = m.to \/ Arg(m) \in N[m.to.port]) /\ Deliver(m))
                => /\ N' = N
                   /\ ranges' = ranges
                   /\ nodesInRanges' = nodesInRanges
                   /\ msgs' = msgs \ {m}
       /\ \A r \in Created :
             RemoteCall(r.port, r) => UNCHANGED <<N, ranges, nodesInRanges, msgs>>]_vars

\* A call is pending whose argument its target already holds, next to others.
C11_Witness ==
    \E m \in msgs :
        /\ Arg(m) \in N[m.to.port]
        /\ Cardinality(N[m.to.port]) >= 2
        /\ ranges[m.to.port][0] # {}

\* The calls of part a at level i of the node on port p, on the side `side`
\* of the range: each member x of the side is called once, with the member
\* of the side next to x towards self, or with self when x is the closest.
LinearisingExact(self, side, calls) ==
    /\ Cardinality(calls) = Cardinality(side)
    /\ \A x \in side : \E c \in calls :
          /\ c.to = x
          /\ Arg(c) \in side \cup {self}
          /\ Lt(x, self) => (Lt(x, Arg(c)) /\ ~ \E y \in side : Lt(x, y) /\ Lt(y, Arg(c)))
          /\ Lt(self, x) => (Lt(Arg(c), x) /\ ~ \E y \in side : Lt(Arg(c), y) /\ Lt(y, x))
    /\ \A c \in calls :
          \/ Arg(c) = self
          \/ Lt(c.to, Arg(c)) /\ Lt(Arg(c), self)
          \/ Lt(self, Arg(c)) /\ Lt(Arg(c), c.to)

\* C13: part a of timeout at level i issues r[k].linearise(r[k+1]) for the
\* consecutive pairs of each side and last.linearise(self) for each non-empty
\* side, and nothing else; so the argument of each call lies strictly between
\* the target and self, or is self.
C13_Linearising ==
    [](\A p \in CreatedPorts : \A i \in Levels :
          ranges[p][i] # {} =>
              /\ LinearisingExact(Self(p), {x \in ranges[p][i] : Lt(x, Self(p))},
                                  linearising(Self(p), leftRange(Self(p), ranges[p][i])))
              /\ LinearisingExact(Self(p), {x \in ranges[p][i] : Lt(Self(p), x)},
                                  linearising(Self(p), rightRange(Self(p), ranges[p][i]))))

\* A node with two range members on its right has fired: the call that
\* introduces the nearer one to the farther one is pending.
C13_Witness ==
    \E p \in CreatedPorts : \E i \in Levels : \E m \in msgs :
        /\ Lt(Self(p), Arg(m))
        /\ Lt(Arg(m), m.to)
        /\ {m.to, Arg(m)} \subseteq ranges[p][i]
        /\ m \in linearising(Self(p), rightRange(Self(p), ranges[p][i]))

\* C14: part b of timeout at level i issues v.linearise(c), for v on one side
\* and c the member of the other side closest to self, exactly when c is in
\* skipRange(i, v, N) taken at that level i on the firing node's N.
C14_BridgeAtLevel ==
    \A p \in CreatedPorts : \A i \in Levels :
        ranges[p][i] # {} =>
            LET left == leftRange(Self(p), ranges[p][i])
                right == rightRange(Self(p), ranges[p][i])
            IN \A sides \in {<<left, right>>, <<right, left>>} :
                 Len(sides[2]) > 0 =>
                    LET c == sides[2][Len(sides[2])]
                    IN \A k \in 1 .. Len(sides[1]) :
                         Call(sides[1][k], c) \in timeoutLevel(Self(p), i, ranges[p], N[p])
                            <=> c \in skipRange(i, sides[1][k], N[p])

\* C15: with an entry node configured, the factory invokes linearise(entryRef)
\* on its first node exactly once, whether the rs reply comes before or after
\* the first newNode(); every later node is linearised by the factory with
\* the reference of the node created before it and with nothing else.
C15_EntryOnce ==
    /\ [](entryCalls <= 1)
    /\ [](deferredRs # "fired" => entryCalls = 0)
    /\ []((deferredRs = "fired" /\ Len(nodes) >= 1)
            => (entryCalls = 1 /\ entryNodeReference \subseteq N[nodes[1].port]))
    /\ [][(Len(nodes) >= 1 /\ Len(nodes') = Len(nodes) + 1)
            => /\ N'[nodes'[Len(nodes')].port] = {nodes[Len(nodes)]}
               /\ entryCalls' = entryCalls]_vars

\* The reply has arrived, two nodes exist, the first holds the entry node's
\* reference and the second holds the first.
C15_Witness ==
    /\ deferredRs = "fired"
    /\ Len(nodes) = 2
    /\ entryCalls = 1
    /\ entryNodeReference # {}
    /\ entryNodeReference \subseteq N[nodes[1].port]
    /\ nodes[1] \in N[nodes[2].port]

\* x shares with w a prefix at least as long as any member of W does.
LongestPrefix(x, w, W) ==
    \A y \in W : \A i \in 0 .. RS_BIT_LENGTH :
        prefix(i, y) = prefix(i, w) => prefix(i, x) = prefix(i, w)

\* C16 as claimed: the member returned maximises the common prefix with w and
\* is determined by (w, W): no other member can be returned for these arguments.
C16_LcpDetermined ==
    \A x \in lcpResult :
        /\ x \in lcpCall.W
        /\ LongestPrefix(x, lcpCall.w, lcpCall.W)
        /\ \A y \in lcpCall.W : LongestPrefix(y, lcpCall.w, lcpCall.W) => y = x

\* C16 amended: the member returned maximises the common prefix with w; it is
\* determined by (w, W) when one member only attains the maximum.
C16_LcpMaximises ==
    \A x \in lcpResult :
        /\ x \in lcpCall.W
        /\ LongestPrefix(x, lcpCall.w, lcpCall.W)
        /\ Cardinality({y \in lcpCall.W : LongestPrefix(y, lcpCall.w, lcpCall.W)}) = 1
              => longestCommonPrefixNode(lcpCall.w, lcpCall.W) = {x}

\* A call has returned one of two members that share the longest prefix with w.
C16_Witness ==
    \E x \in lcpResult : \E y \in lcpCall.W :
        /\ y # x
        /\ LongestPrefix(y, lcpCall.w, lcpCall.W)
        /\ LongestPrefix(x, lcpCall.w, lcpCall.W)
        /\ lcpCall.w \notin lcpCall.W

Sentinels == {lowest, highest}

\* C17: lowest and highest are in no N, in no level range, and are neither
\* the target nor the argument of a linearise call.
C17_NoSentinels ==
    /\ \A p \in Ports :
          /\ N[p] \cap Sentinels = {}
          /\ nodesInRanges[p] \cap Sentinels = {}
          /\ \A i \in Levels : ranges[p][i] \cap Sentinels = {}
    /\ \A m \in msgs : m.to \notin Sentinels /\ Arg(m) \notin Sentinels

\* A range is bounded by a sentinel on one side, holds neighbours, and the
\* node's calls are pending.
C17_Witness ==
    \E p \in CreatedPorts : \E i \in Levels :
        /\ ranges[p][i] # {}
        /\ low(i, Self(p), N[p]) = lowest
        /\ high(i, Self(p), N[p]) # highest
        /\ timeout(Self(p), ranges[p], N[p]) \subseteq msgs

\* C18: a timeout firing on v leaves v's N, ranges and nodesInRanges as they
\* are; it only adds the calls it issues to the calls under way.
C18_TimeoutFrame ==
    [][\A p \in Ports : Timeout(p) =>
          /\ N'[p] = N[p]
          /\ ranges'[p] = ranges[p]
          /\ nodesInRanges'[p] = nodesInRanges[p]
          /\ msgs' = msgs \cup timeout(Self(p), ranges[p], N[p])]_vars

\* A node with neighbours in its ranges has fired and its calls are pending.
C18_Witness ==
    \E p \in CreatedPorts :
        /\ Cardinality(N[p]) >= 2
        /\ ranges[p][0] = N[p]
        /\ msgs # {}
        /\ msgs = timeout(Self(p), ranges[p], N[p])

\* C19: every call a node v issues, from timeout or from linearise, goes to a
\* target other than v and other than the reference it carries.
C19_NoSelfCalls ==
    /\ [](\A m \in msgs : m.to # Arg(m))
    /\ [][\A p \in Ports : Timeout(p) =>
             \A c \in msgs' \ msgs : c.to # Self(p) /\ c.to # Arg(c)]_vars
    /\ [][\A m \in msgs \ msgs' : Deliver(m) =>
             \A c \in msgs' \ msgs : c.to # m.to /\ c.to # Arg(c)]_vars

\* A node with neighbours on both sides has fired: bridging calls are pending.
C19_Witness ==
    \E p \in CreatedPorts : \E m \in msgs :
        /\ Lt(m.to, Self(p))
        /\ Lt(Self(p), Arg(m))
        /\ m \in timeout(Self(p), ranges[p], N[p])

\* w is the member of n closest to v on its side of v.
Closest(w, v, n) ==
    /\ w \in n
    /\ ~ \E y \in n : (Lt(w, y) /\ Lt(y, v)) \/ (Lt(v, y) /\ Lt(y, w))

====
